---------------------------- MODULE Spec2Model ----------------------------
(***************************************************************************)
(* A model of the AssetGen document accessor (src/api/firebase.py) and the *)
(* entity shapes it maps (src/api/models.py).                              *)
(*                                                                         *)
(* The document store (google-cloud-firestore) is the environment: a map   *)
(* from document paths to field maps, with whole-document set, partial     *)
(* update (which needs the document to exist), delete (which does not),    *)
(* single-document get, collection queries, an atomic multi-document       *)
(* commit, and a server clock that replaces the SERVER_TIMESTAMP sentinel. *)
(* Every store call may also fail (the code wraps that in FirestoreError). *)
(*                                                                         *)
(* An accessor operation is a sequence of store calls; each store call is  *)
(* one atomic step of the request that issues it, so that the steps of     *)
(* different requests interleave.                                          *)
(***************************************************************************)
EXTENDS Integers, Sequences, FiniteSets, TLC

VARIABLES
    store,   \* document path -> stored field map (the documents that exist)
    clock,   \* the last timestamp the store's clock issued
    req,     \* request -> the accessor call it runs, its position and result
    accessor \* the cache of _get_accessor_cached and the accessors built so far

vars == <<store, clock, req, accessor>>

---------------------------------------------------------------------------
(* Bounds of the model.                                                    *)

\* Server timestamps issued in one behaviour (stamped writes).
MaxClock == 2

\* FirestoreAccessor objects constructed in one behaviour.
MaxAccessors == 2

---------------------------------------------------------------------------
(* Field values.                                                           *)

None == [k |-> "none"]
Str(s) == [k |-> "str", s |-> s]
Bool(s) == [k |-> "bool", s |-> s]
Map(s) == [k |-> "map", s |-> s]
List(l) == [k |-> "list", l |-> l]
\* A timestamp and the clock it was read from ("server" or "client").
Ts(src, t) == [k |-> "ts", src |-> src, t |-> t]

\* firestore.SERVER_TIMESTAMP: the sentinel the store replaces by its clock.
SERVER_TIMESTAMP == [k |-> "server_timestamp"]

\* Values a client clock can show: behind every server time, or ahead of it.
ClientTimes == {0, MaxClock + 1}

EmptyMap == [f \in {} |-> None]

\* The map m with key f set to v (a Python dict assignment).
Put(m, f, v) == [g \in DOMAIN m \cup {f} |-> IF g = f THEN v ELSE m[g]]

\* The map m without the keys in S.
Drop(m, S) == [g \in DOMAIN m \ S |-> m[g]]

\* dict.update: the keys of u override those of m.
Merge(m, u) == [g \in DOMAIN m \cup DOMAIN u |-> IF g \in DOMAIN u THEN u[g] ELSE m[g]]

---------------------------------------------------------------------------
(* Entity shapes (src/api/models.py).  Each kind keeps the envelope of     *)
(* FirestoreBase and one field of every sort the class declares: a         *)
(* required string, an optional field whose default is None, and a field   *)
(* whose default is not None.                                              *)

Kinds == {"organization", "project", "asset", "generation", "variant",
          "theme", "conceptImage", "user"}

GenerationStatus == {"pending", "running", "completed", "failed"}

\* FirestoreBase: id, org_id, project_id, created_at, updated_at.
FirestoreBase == {"id", "org_id", "project_id", "created_at", "updated_at"}

\* The fields each model class adds to FirestoreBase.
OwnFields(kind) ==
    CASE kind = "organization" -> {"name", "plan_tier"}
      [] kind = "project"      -> {"name", "description", "settings"}
      [] kind = "asset"        -> {"name", "tags", "theme_id"}
      [] kind = "generation"   -> {"prompt_text", "status", "notes"}
      [] kind = "variant"      -> {"image_url", "is_selected", "feedback"}
      [] kind = "theme"        -> {"name", "style_keywords", "description"}
      [] kind = "conceptImage" -> {"image_url", "tags", "asset_id"}
      [] kind = "user"         -> {"name", "email"}

Fields(kind) == FirestoreBase \cup OwnFields(kind)

\* The declared type of a field.
FieldType(kind, f) ==
    CASE f \in {"id", "org_id", "project_id"} -> "opt_str"
      [] f \in {"created_at", "updated_at"} -> "opt_ts"
      [] f \in {"prompt_text", "image_url"} -> "str"
      [] f = "name" -> IF kind = "user" THEN "opt_str" ELSE "str"
      [] f \in {"tags", "style_keywords"} -> "list"
      [] f = "status" -> "enum"
      [] f = "settings" -> "opt_map"
      [] f = "is_selected" -> "opt_bool"
      [] OTHER -> "opt_str"

Required(kind, f) == FieldType(kind, f) = "str"

\* The value a field takes when the constructor is not given it; `now` is
\* what models.now() returns at that moment (created_at's default_factory).
FieldDefault(kind, f, now) ==
    CASE f = "created_at" -> Ts("client", now)
      [] f \in {"tags", "style_keywords"} -> List(<<>>)
      [] f = "status" -> Str("pending")
      [] f = "settings" -> Map("{}")
      [] f = "is_selected" -> Bool("False")
      [] OTHER -> None

\* Whether pydantic accepts v for a field of type ty.
ValidValue(ty, v) ==
    CASE ty = "str" -> v.k = "str"
      [] ty = "opt_str" -> v.k \in {"str", "none"}
      [] ty = "opt_ts" -> v.k \in {"ts", "none"}
      [] ty = "list" -> v.k = "list"
      [] ty = "enum" -> v.k = "str" /\ v.s \in GenerationStatus
      [] ty = "opt_map" -> v.k \in {"map", "none"}
      [] ty = "opt_bool" -> v.k \in {"bool", "none"}
      [] OTHER -> FALSE

\* model_cls(**data) can be built: every required field is given and every
\* given field of the class holds a value of its type (other keys are ignored).
Constructible(kind, data) ==
    \A f \in Fields(kind) :
        IF f \in DOMAIN data THEN ValidValue(FieldType(kind, f), data[f])
        ELSE ~Required(kind, f)

\* model_cls(**data): the given fields, and the defaults of the others.
Construct(kind, data, now) ==
    [f \in Fields(kind) |->
        IF f \in DOMAIN data THEN data[f] ELSE FieldDefault(kind, f, now)]

---------------------------------------------------------------------------
(* Document paths (the path scheme of FirestoreAccessor).  A path is the    *)
(* sequence of collection names and document ids from the root.            *)

\* The document ids the model draws from, per kind, in the store's id order.
Ids(kind) ==
    CASE kind = "organization" -> <<"org_1">>
      [] kind = "project"      -> <<"proj_1">>
      [] kind = "asset"        -> <<"asset_1", "asset_2">>
      [] kind = "generation"   -> <<"gen_1", "gen_2">>
      [] kind = "variant"      -> <<"var_1", "var_2">>
      [] kind = "theme"        -> <<"theme_1", "theme_2">>
      [] kind = "conceptImage" -> <<"img_1", "img_2">>
      [] kind = "user"         -> <<"user_1">>

IdSet(kind) == {Ids(kind)[i] : i \in DOMAIN Ids(kind)}

Range(s) == {s[i] : i \in DOMAIN s}

orgs_col == <<"organizations">>

_projects_col(org_id) == orgs_col \o <<org_id, "projects">>

_assets_col(org_id, project_id) == _projects_col(org_id) \o <<project_id, "assets">>

_generations_col(org_id, project_id, asset_id) ==
    _assets_col(org_id, project_id) \o <<asset_id, "generations">>

_variants_col(org_id, project_id, asset_id, generation_id) ==
    _generations_col(org_id, project_id, asset_id) \o <<generation_id, "variants">>

_themes_col(org_id, project_id) == _projects_col(org_id) \o <<project_id, "themes">>

_concept_images_col(org_id, project_id) ==
    _projects_col(org_id) \o <<project_id, "conceptImages">>

_users_col == <<"users">>

\* The kinds of the ancestors a call names, outermost first.
AncestorKinds(kind) ==
    CASE kind \in {"organization", "user"} -> <<>>
      [] kind = "project" -> <<"organization">>
      [] kind \in {"asset", "theme", "conceptImage"} -> <<"organization", "project">>
      [] kind = "generation" -> <<"organization", "project", "asset">>
      [] kind = "variant" -> <<"organization", "project", "asset", "generation">>

\* The ancestor-id arguments a call on `kind` can be given.
Ancestors(kind) ==
    LET ks == AncestorKinds(kind)
    IN  {a \in [DOMAIN ks -> UNION {IdSet(k) : k \in Kinds}] :
            \A i \in DOMAIN ks : a[i] \in IdSet(ks[i])}

\* The collection a call on `kind` with ancestor ids `anc` works on.
Col(kind, anc) ==
    CASE kind = "organization" -> orgs_col
      [] kind = "user"         -> _users_col
      [] kind = "project"      -> _projects_col(anc[1])
      [] kind = "asset"        -> _assets_col(anc[1], anc[2])
      [] kind = "theme"        -> _themes_col(anc[1], anc[2])
      [] kind = "conceptImage" -> _concept_images_col(anc[1], anc[2])
      [] kind = "generation"   -> _generations_col(anc[1], anc[2], anc[3])
      [] kind = "variant"      -> _variants_col(anc[1], anc[2], anc[3], anc[4])

\* collection_ref.document(doc_id)
Document(col, doc_id) == Append(col, doc_id)

DocId(path) == path[Len(path)]

Parent(path) == SubSeq(path, 1, Len(path) - 1)

IsPrefix(p, q) == Len(p) <= Len(q) /\ SubSeq(q, 1, Len(p)) = p

---------------------------------------------------------------------------
(* The document store.                                                      *)

\* The sentinel replaced by the time t of the write.
Resolve(payload, t) ==
    [f \in DOMAIN payload |->
        IF payload[f] = SERVER_TIMESTAMP THEN Ts("server", t) ELSE payload[f]]

Stamped(payload) == \E f \in DOMAIN payload : payload[f] = SERVER_TIMESTAMP

\* doc_ref.set(payload): the document becomes exactly the payload.
DocSet(st, path, payload, t) ==
    [p \in DOMAIN st \cup {path} |-> IF p = path THEN Resolve(payload, t) ELSE st[p]]

\* doc_ref.update(payload) on an existing document: the payload's fields are
\* merged into it.
DocUpdate(st, path, payload, t) ==
    [p \in DOMAIN st |-> IF p = path THEN Merge(st[p], Resolve(payload, t)) ELSE st[p]]

\* doc_ref.delete(): the document is gone, whether it existed or not; the
\* documents below it stay.
DocDelete(st, path) == [p \in DOMAIN st \ {path} |-> st[p]]

\* doc_ref.get(): a DocumentSnapshot.
Snapshot(st, path) ==
    [exists |-> path \in DOMAIN st,
     id |-> DocId(path),
     data |-> IF path \in DOMAIN st THEN st[path] ELSE EmptyMap]

\* The ids a collection can auto-generate: ids no document of the collection
\* has and under which nothing is stored.
FreshIds(st, kind, col) ==
    {i \in IdSet(kind) : \A p \in DOMAIN st : ~IsPrefix(Document(col, i), p)}

\* The documents directly in a collection.
DocsIn(st, col) == {p \in DOMAIN st : Parent(p) = col}

---------------------------------------------------------------------------
(* Helper utilities of FirestoreAccessor.                                   *)

\* model.dict(exclude_none=True), without "id" unless include_id.
_model_to_dict(model, include_id) ==
    LET data == [f \in {g \in DOMAIN model : model[g] # None} |-> model[f]]
    IN  IF ~include_id /\ "id" \in DOMAIN data THEN Drop(data, {"id"}) ELSE data

\* The outcomes of a conversion: no document, a model, or FirestoreError.
NoModel == [tag |-> "none", model |-> EmptyMap]
ParseError == [tag |-> "error", model |-> EmptyMap]
Model(m) == [tag |-> "model", model |-> m]

\* A conversion that takes a document it cannot build for a missing one.
SkipsInvalid(doc_snapshot, kind, now) ==
    IF ~doc_snapshot.exists THEN NoModel
    ELSE LET data == Put(doc_snapshot.data, "id", Str(doc_snapshot.id))
         IN  IF Constructible(kind, data) THEN Model(Construct(kind, data, now))
             ELSE NoModel

\* A conversion that lets an id stored in the document win over the
\* snapshot's id.
StoredIdWins(doc_snapshot, kind, now) ==
    IF ~doc_snapshot.exists THEN NoModel
    ELSE LET data == Merge(Put(EmptyMap, "id", Str(doc_snapshot.id)), doc_snapshot.data)
         IN  IF Constructible(kind, data) THEN Model(Construct(kind, data, now))
             ELSE ParseError

\* A snapshot as a model: None when the snapshot does not exist; the
\* document id overrides a stored "id"; FirestoreError when the class
\* cannot be built from the data, with the snapshot's id in its message.
_doc_to_model(doc_snapshot, kind, now) ==
    IF ~doc_snapshot.exists THEN NoModel
    ELSE LET data == Put(doc_snapshot.data, "id", Str(doc_snapshot.id))
         IN  IF Constructible(kind, data) THEN Model(Construct(kind, data, now))
             ELSE [ParseError EXCEPT !.model = Put(EmptyMap, "id", Str(doc_snapshot.id))]

\* setattr(model, key, value) for every key the model defines and whose
\* value is not None.
_attach_metadata(model, fields) ==
    [f \in DOMAIN model |->
        IF f \in DOMAIN fields /\ fields[f] # None THEN fields[f] ELSE model[f]]

\* The keyword arguments the accessor's methods of each kind hand to
\* _attach_metadata, from the ancestor ids of the call.
Metadata(kind, anc) ==
    CASE kind \in {"organization", "user"} -> EmptyMap
      [] kind = "project" -> [f \in {"org_id"} |-> Str(anc[1])]
      [] kind \in {"asset", "theme", "conceptImage"} ->
            [f \in {"org_id", "project_id"} |->
                IF f = "org_id" THEN Str(anc[1]) ELSE Str(anc[2])]
      [] kind = "generation" ->
            [f \in {"org_id", "project_id", "asset_id"} |->
                CASE f = "org_id" -> Str(anc[1])
                  [] f = "project_id" -> Str(anc[2])
                  [] f = "asset_id" -> Str(anc[3])]
      [] kind = "variant" ->
            [f \in {"org_id", "project_id", "asset_id", "generation_id"} |->
                CASE f = "org_id" -> Str(anc[1])
                  [] f = "project_id" -> Str(anc[2])
                  [] f = "asset_id" -> Str(anc[3])
                  [] f = "generation_id" -> Str(anc[4])]

\* A conversion of snapshots that leaves out those that do not convert.
SkipsBroken(snaps, kind, now) ==
    LET conv == [i \in DOMAIN snaps |-> _doc_to_model(snaps[i], kind, now)]
        good == SelectSeq(conv, LAMBDA c : c.tag = "model")
    IN  [tag |-> "list", models |-> [i \in DOMAIN good |-> good[i].model]]

\* The models of a sequence of snapshots; FirestoreError as soon as one
\* snapshot does not convert.
_query_to_models(snaps, kind, now) ==
    LET conv == [i \in DOMAIN snaps |-> _doc_to_model(snaps[i], kind, now)]
    IN  IF \E i \in DOMAIN conv : conv[i].tag = "error"
        THEN [tag |-> "error", models |-> <<>>]
        ELSE [tag |-> "list",
              models |-> [i \in DOMAIN conv |-> conv[i].model]]

\* The payload _create_doc writes: created_at from the server unless the
\* data carries one, updated_at always from the server.
CreatePayload(data) ==
    LET payload == IF "created_at" \in DOMAIN data THEN data
                   ELSE Put(data, "created_at", SERVER_TIMESTAMP)
    IN  Put(payload, "updated_at", SERVER_TIMESTAMP)

\* A create that merges into the document it finds, as set(merge=True) would.
MergingCreate(st, doc_ref, data, t) ==
    IF doc_ref \in DOMAIN st THEN DocUpdate(st, doc_ref, CreatePayload(data), t)
    ELSE DocSet(st, doc_ref, CreatePayload(data), t)

\* The store after _create_doc wrote `data` at doc_ref at server time t.
_create_doc(st, doc_ref, data, t) == DocSet(st, doc_ref, CreatePayload(data), t)

\* What _get_doc returns for doc_ref.
_get_doc(st, doc_ref, kind, now) == _doc_to_model(Snapshot(st, doc_ref), kind, now)

\* The payload _update_doc sends: the updates, and updated_at from the server.
UpdatePayload(updates) == Put(updates, "updated_at", SERVER_TIMESTAMP)

\* An update that enforces the order pending, running, completed/failed on
\* the status and leaves the document as it was on a backward transition.
ForwardOnly(st, doc_ref, updates, t) ==
    LET rank(v) == CASE v = Str("pending") -> 0
                     [] v = Str("running") -> 1
                     [] OTHER -> 2
    IN  IF /\ "status" \in DOMAIN updates
           /\ "status" \in DOMAIN st[doc_ref]
           /\ rank(updates["status"]) < rank(st[doc_ref]["status"])
        THEN st
        ELSE DocUpdate(st, doc_ref, UpdatePayload(updates), t)

\* An update that writes the payload as the whole document.
WholeDocument(st, doc_ref, updates, t) == DocSet(st, doc_ref, UpdatePayload(updates), t)

\* The store after _update_doc on an existing document at server time t.
_update_doc(st, doc_ref, updates, t) == DocUpdate(st, doc_ref, UpdatePayload(updates), t)

\* A delete that leaves the document where it is.
KeepingDelete(st, doc_ref) == st

\* A delete that takes the documents below the deleted one with it.
CascadingDelete(st, doc_ref) == [p \in {q \in DOMAIN st : ~IsPrefix(doc_ref, q)} |-> st[p]]

\* The store after _delete_doc.
_delete_doc(st, doc_ref) == DocDelete(st, doc_ref)

---------------------------------------------------------------------------
(* Collection queries.                                                      *)

\* A where clause <<field, op, value>> on a stored document.
Matches(doc, clause) ==
    LET f == clause[1]
    IN  /\ f \in DOMAIN doc
        /\ CASE clause[2] = "array_contains" ->
                    doc[f].k = "list" /\ clause[3] \in Range(doc[f].l)
             [] clause[2] = "==" -> doc[f] = Str(clause[3])
             [] OTHER -> FALSE

\* The position of a document id in the store's id order.
IdIndex(kind, id) == CHOOSE i \in DOMAIN Ids(kind) : Ids(kind)[i] = id

\* The rank of a value under order_by: null first, then timestamps.
OrderKey(v) == IF v.k = "ts" THEN v.t + 1 ELSE 0

\* The elements of S as a sequence, smallest key first.
RECURSIVE SortByKey(_, _)
SortByKey(S, key) ==
    IF S = {} THEN <<>>
    ELSE LET x == CHOOSE y \in S : \A z \in S : key[y] <= key[z]
         IN  <<x>> \o SortByKey(S \ {x}, key)

\* A collection as a query: no where clause, no ordering.
NoQuery == [where |-> <<>>, order_by |-> "", desc |-> FALSE]

\* The kind of the document at a path, from the collection that holds it.
DocKind(path) ==
    LET col == path[Len(path) - 1]
    IN  CASE col = "organizations" -> "organization"
          [] col = "projects" -> "project"
          [] col = "assets" -> "asset"
          [] col = "generations" -> "generation"
          [] col = "variants" -> "variant"
          [] col = "themes" -> "theme"
          [] col = "conceptImages" -> "conceptImage"
          [] col = "users" -> "user"

\* The documents of one kind a store holds.
DocsOf(st, kind) == {p \in DOMAIN st : DocKind(p) = kind}

\* query.get(): the snapshots of the documents of `col` that satisfy every
\* where clause and, under order_by, hold the ordering field; in the order
\* of that field (then of the id), or of the id alone.
QueryGet(st, kind, col, q) ==
    LET hits == {p \in DocsIn(st, col) :
                    /\ \A i \in DOMAIN q.where : Matches(st[p], q.where[i])
                    /\ q.order_by # "" => q.order_by \in DOMAIN st[p]}
        n == Len(Ids(kind)) + 1
        rank == [p \in hits |->
                    IF q.order_by = "" THEN IdIndex(kind, DocId(p))
                    ELSE OrderKey(st[p][q.order_by]) * n + IdIndex(kind, DocId(p))]
        key == [p \in hits |-> IF q.desc THEN 0 - rank[p] ELSE rank[p]]
        paths == SortByKey(hits, key)
    IN  [i \in DOMAIN paths |-> Snapshot(st, paths[i])]

---------------------------------------------------------------------------
(* Requests.  A request runs one accessor call: `pc` is the store call it   *)
(* issues next, `ret` and `out` what it returned, `err` why it raised       *)
(* FirestoreError, `pre` the store as its first store call found it.        *)

Procs == {"r1", "r2"}

\* The arguments of a list call: `where` (list_assets), `tag`
\* (list_concept_images), `order_by` and `desc` (list_generations).
NoArgs == [where |-> <<>>, tag |-> None, order_by |-> "created_at", desc |-> TRUE]

EmptyStore == [p \in {} |-> EmptyMap]

Idle ==
    [op |-> "idle", kind |-> "", anc |-> <<>>, id |-> "", id2 |-> "",
     entity |-> EmptyMap, entity2 |-> EmptyMap, updates |-> EmptyMap,
     args |-> NoArgs, pc |-> "idle", ref |-> <<>>, ref2 |-> <<>>,
     committed |-> FALSE, ret |-> "", out |-> <<>>, err |-> "",
     status |-> 0, pre |-> EmptyStore]

\* A call of `op` on `kind` with ancestor ids `anc` and document id `id`.
Call(op, kind, anc, id) ==
    [Idle EXCEPT !.op = op, !.kind = kind, !.anc = anc, !.id = id, !.pre = store]

Free(r) == req[r].pc \in {"idle", "done"}

\* An error that is noted while the call goes on.
Swallow(c, why) == [c EXCEPT !.ret = "error", !.err = why]

\* The call raises FirestoreError.
Raise(c, why) == [c EXCEPT !.pc = "done", !.ret = "error", !.err = why]

\* The call returns.
Return(c, ret, out) == [c EXCEPT !.pc = "done", !.ret = ret, !.out = out]

\* The methods FirestoreAccessor defines, per kind.
AccessorOps(kind) ==
    CASE kind \in {"organization", "asset"} -> {"create", "get", "list", "update", "delete"}
      [] kind \in {"project", "generation"} -> {"create", "get", "list", "update"}
      [] kind \in {"variant", "user"} -> {"create", "get", "list"}
      [] kind \in {"theme", "conceptImage"} -> {"create", "list"}

\* What a Get returns for a converted document: the model with the
\* ancestor ids attached, or None.
Attached(res, kind, anc) ==
    IF res.tag = "model" THEN <<_attach_metadata(res.model, Metadata(kind, anc))>>
    ELSE <<>>

\* The end of a call that reads one document and needs it when `must`.
ReadResult(c, res, must) ==
    CASE res.tag = "error" -> [Raise(c, "parse") EXCEPT !.out = <<res.model>>]
      [] res.tag = "none" -> IF must THEN Raise(c, "read_back") ELSE Return(c, "none", <<>>)
      [] res.tag = "model" -> Return(c, "model", Attached(res, c.kind, c.anc))

---------------------------------------------------------------------------
(* The accessor's operations.  `sc` names the inputs the calls draw from:   *)
(* sc.anc[kind] the ancestor ids, sc.ids[kind] the document-id arguments    *)
(* ("" for none), sc.ents[kind] the entities, sc.upds[kind] the update      *)
(* maps, sc.args[kind] the list arguments, sc.max the last server time.     *)

\* The ids a create can end up writing at: the caller's, or a fresh one.
TargetIds(st, kind, col, doc_id) ==
    IF doc_id # "" THEN {doc_id} ELSE FreshIds(st, kind, col)

\* create_organization, create_project, ..., create_user, up to the write:
\* _model_to_dict, then _create_doc.
create(r, kind, sc) ==
    /\ Free(r)
    /\ "create" \in AccessorOps(kind)
    /\ \E anc \in sc.anc[kind], e \in sc.ents[kind], doc_id \in sc.ids[kind] :
        LET c == [Call("create", kind, anc, doc_id) EXCEPT !.entity = e]
            data == _model_to_dict(e, FALSE)
            col == Col(kind, anc)
        IN  \/ /\ req' = [req EXCEPT ![r] = Raise(c, "storage")]
               /\ UNCHANGED <<store, clock>>
            \/ /\ clock < sc.max
               /\ \E id \in TargetIds(store, kind, col, doc_id) :
                    /\ store' = _create_doc(store, Document(col, id), data, clock + 1)
                    /\ clock' = clock + 1
                    /\ req' = [req EXCEPT ![r] =
                            [c EXCEPT !.pc = "read_back", !.ref = Document(col, id)]]
    /\ UNCHANGED accessor

\* A read-back that deletes the written document when it fails.
RollsBack(r) ==
    /\ req[r].pc = "read_back"
    /\ \/ /\ req' = [req EXCEPT ![r] = Raise(req[r], "storage")]
          /\ store' = DocDelete(store, req[r].ref)
       \/ /\ \E now \in ClientTimes :
                req' = [req EXCEPT ![r] =
                    ReadResult(req[r], _get_doc(store, req[r].ref, req[r].kind, now), TRUE)]
          /\ UNCHANGED store
    /\ UNCHANGED <<clock, accessor>>

\* The rest of a create: _get_doc on the written reference, FirestoreError
\* when it yields None, else the model with the ancestor ids attached.
read_back(r) ==
    /\ req[r].pc = "read_back"
    /\ \/ req' = [req EXCEPT ![r] = Raise(req[r], "storage")]
       \/ \E now \in ClientTimes :
            req' = [req EXCEPT ![r] =
                ReadResult(req[r], _get_doc(store, req[r].ref, req[r].kind, now), TRUE)]
    /\ UNCHANGED <<store, clock>>
    /\ UNCHANGED accessor

\* get_organization, get_project, get_asset, get_generation, get_variant,
\* get_user.
get(r, kind, sc) ==
    /\ Free(r)
    /\ "get" \in AccessorOps(kind)
    /\ \E anc \in sc.anc[kind], id \in sc.ids[kind] \ {""} :
        LET c == [Call("get", kind, anc, id) EXCEPT
                     !.ref = Document(Col(kind, anc), id), !.pre = EmptyStore]
        IN  \/ req' = [req EXCEPT ![r] = Raise(c, "storage")]
            \/ \E now \in ClientTimes :
                 req' = [req EXCEPT ![r] =
                     ReadResult(c, _get_doc(store, c.ref, kind, now), FALSE)]
    /\ UNCHANGED <<store, clock>>
    /\ UNCHANGED accessor

\* The query a list call builds from its arguments.
ListQuery(kind, args) ==
    CASE kind = "asset" -> [NoQuery EXCEPT !.where = args.where]
      [] kind = "conceptImage" ->
            IF args.tag # None /\ args.tag.s # ""
            THEN [NoQuery EXCEPT !.where = << <<"tags", "array_contains", args.tag.s>> >>]
            ELSE NoQuery
      [] kind = "generation" ->
            [NoQuery EXCEPT !.order_by = args.order_by, !.desc = args.desc]
      [] OTHER -> NoQuery

\* What a list call returns on store `st`.
ListResult(st, kind, anc, args, now) ==
    LET res == _query_to_models(
                   QueryGet(st, kind, Col(kind, anc), ListQuery(kind, args)), kind, now)
    IN  [tag |-> res.tag,
         models |-> [i \in DOMAIN res.models |->
                        _attach_metadata(res.models[i], Metadata(kind, anc))]]

\* list_organizations, list_projects, ..., list_users.
list(r, kind, sc) ==
    /\ Free(r)
    /\ "list" \in AccessorOps(kind)
    /\ \E anc \in sc.anc[kind], args \in sc.args[kind] :
        LET c == [Call("list", kind, anc, "") EXCEPT
                     !.args = args, !.ref = Col(kind, anc), !.pre = EmptyStore]
        IN  \/ req' = [req EXCEPT ![r] = Raise(c, "storage")]
            \/ \E now \in ClientTimes :
                 LET res == ListResult(store, kind, anc, args, now)
                 IN  req' = [req EXCEPT ![r] =
                         IF res.tag = "error" THEN Raise(c, "parse")
                         ELSE Return(c, "list", res.models)]
    /\ UNCHANGED <<store, clock>>
    /\ UNCHANGED accessor

\* update_organization, update_project, update_asset, update_generation:
\* _update_doc, whose store call fails when the document does not exist.
update(r, kind, sc) ==
    /\ Free(r)
    /\ "update" \in AccessorOps(kind)
    /\ \E anc \in sc.anc[kind], id \in sc.ids[kind] \ {""}, u \in sc.upds[kind] :
        LET c == [Call("update", kind, anc, id) EXCEPT
                     !.updates = u, !.ref = Document(Col(kind, anc), id)]
        IN  \/ /\ req' = [req EXCEPT ![r] = Raise(c, "storage")]
               /\ UNCHANGED <<store, clock>>
            \/ /\ c.ref \notin DOMAIN store
               /\ req' = [req EXCEPT ![r] = Raise(c, "not_found")]
               /\ UNCHANGED <<store, clock>>
            \/ /\ c.ref \in DOMAIN store
               /\ clock < sc.max
               /\ store' = _update_doc(store, c.ref, u, clock + 1)
               /\ clock' = clock + 1
               /\ req' = [req EXCEPT ![r] = Return(c, "ok", <<>>)]
    /\ UNCHANGED accessor

\* delete_organization, delete_asset: _delete_doc.
delete(r, kind, sc) ==
    /\ Free(r)
    /\ "delete" \in AccessorOps(kind)
    /\ \E anc \in sc.anc[kind], id \in sc.ids[kind] \ {""} :
        LET c == [Call("delete", kind, anc, id) EXCEPT
                     !.ref = Document(Col(kind, anc), id)]
        IN  \/ /\ req' = [req EXCEPT ![r] = Raise(c, "storage")]
               /\ UNCHANGED <<store, clock>>
            \/ /\ store' = _delete_doc(store, c.ref)
               /\ req' = [req EXCEPT ![r] = Return(c, "ok", <<>>)]
               /\ UNCHANGED clock
    /\ UNCHANGED accessor

\* A transaction that applies the asset write alone.
AssetWriteOnly(st, asset_ref, gen_ref, asset, generation, t) ==
    DocSet(st, asset_ref, _model_to_dict(asset, FALSE), t)

\* A transaction that applies the generation write alone.
GenerationWriteOnly(st, asset_ref, gen_ref, asset, generation, t) ==
    DocSet(st, gen_ref, _model_to_dict(generation, FALSE), t)

\* transaction_fn: the two transaction.set calls, committed together.
transaction_fn(st, asset_ref, gen_ref, asset, generation, t) ==
    DocSet(DocSet(st, asset_ref, _model_to_dict(asset, FALSE), t),
           gen_ref, _model_to_dict(generation, FALSE), t)

\* create_asset_with_first_generation, up to the end of the transaction:
\* it commits both writes or raises with none of them applied.
create_asset_with_first_generation(r, sc) ==
    /\ Free(r)
    /\ \E anc \in sc.anc["asset"], asset \in sc.ents["asset"],
          generation \in sc.ents["generation"],
          asset_id \in sc.ids["asset"], generation_id \in sc.ids["generation"] :
        LET c == [Call("create_asset_with_first_generation", "asset", anc, asset_id)
                     EXCEPT !.id2 = generation_id, !.entity = asset,
                            !.entity2 = generation]
            col == _assets_col(anc[1], anc[2])
        IN  \/ /\ req' = [req EXCEPT ![r] = Raise(c, "transaction")]
               /\ UNCHANGED <<store, clock>>
            \/ \E a \in TargetIds(store, "asset", col, asset_id) :
                 LET asset_ref == Document(col, a)
                     gen_col == asset_ref \o <<"generations">>
                 IN  \E g \in TargetIds(store, "generation", gen_col, generation_id) :
                       /\ store' = transaction_fn(store, asset_ref, Document(gen_col, g),
                                                  asset, generation, clock)
                       /\ req' = [req EXCEPT ![r] =
                               [c EXCEPT !.pc = "get_asset", !.committed = TRUE,
                                         !.ref = asset_ref, !.ref2 = Document(gen_col, g)]]
                       /\ UNCHANGED clock
    /\ UNCHANGED accessor

\* create_asset_with_first_generation, the get_asset after the transaction.
compound_get_asset(r) ==
    /\ req[r].pc = "get_asset"
    /\ \/ req' = [req EXCEPT ![r] = Raise(req[r], "storage")]
       \/ \E now \in ClientTimes :
            LET res == _get_doc(store, req[r].ref, "asset", now)
            IN  req' = [req EXCEPT ![r] =
                    IF res.tag = "error" THEN Raise(req[r], "parse")
                    ELSE [req[r] EXCEPT !.pc = "get_generation",
                             !.out = Attached(res, "asset", req[r].anc)]]
    /\ UNCHANGED <<store, clock>>
    /\ UNCHANGED accessor

\* create_asset_with_first_generation, the get_generation, the check of the
\* two models and the AssetWithGenerations it returns.
compound_get_generation(r) ==
    /\ req[r].pc = "get_generation"
    /\ \/ req' = [req EXCEPT ![r] = Raise(req[r], "storage")]
       \/ \E now \in ClientTimes :
            LET c == req[r]
                gen_anc == Append(c.anc, DocId(c.ref))
                res == _get_doc(store, c.ref2, "generation", now)
            IN  req' = [req EXCEPT ![r] =
                    CASE res.tag = "error" -> Raise(c, "parse")
                      [] res.tag = "none" \/ (res.tag = "model" /\ c.out = <<>>) ->
                            Raise(c, "read_back")
                      [] OTHER ->
                            Return(c, "model",
                                   c.out \o Attached(res, "generation", gen_anc))]
    /\ UNCHANGED <<store, clock>>
    /\ UNCHANGED accessor

\* A combined model that leaves the variants out.
WithoutVariants(gen, variants, generation_id, now) ==
    LET data == Put(gen, "id", Str(generation_id))
    IN  Put(Construct("generation", data, now), "variants", List(<<>>))

\* GenerationWithVariants(**data): the fields of the generation read, the
\* variants listed and the generation id the caller gave.
GenerationWithVariants(gen, variants, generation_id, now) ==
    LET data == Put(gen, "id", Str(generation_id))
    IN  Put(Construct("generation", data, now), "variants",
            List([i \in DOMAIN variants |-> Construct("variant", variants[i], now)]))

\* get_generation_with_variants, its get_generation: None when there is no
\* generation document, else on to list_variants.
get_generation_with_variants(r, sc) ==
    /\ Free(r)
    /\ \E anc \in sc.anc["generation"], id \in sc.ids["generation"] \ {""} :
        LET c == [Call("get_generation_with_variants", "generation", anc, id) EXCEPT
                     !.ref = Document(Col("generation", anc), id),
                     !.ref2 = Col("variant", Append(anc, id))]
        IN  \/ req' = [req EXCEPT ![r] = Raise(c, "storage")]
            \/ \E now \in ClientTimes :
                 LET res == _get_doc(store, c.ref, "generation", now)
                 IN  req' = [req EXCEPT ![r] =
                         CASE res.tag = "error" -> ReadResult(c, res, FALSE)
                           [] res.tag = "none" -> Return(c, "none", <<>>)
                           [] OTHER -> [c EXCEPT !.pc = "list_variants",
                                           !.out = Attached(res, "generation", anc)]]
    /\ UNCHANGED <<store, clock>>
    /\ UNCHANGED accessor

\* A second read that fetches the generation again with the variants.
ReadsBothAgain(r) ==
    /\ req[r].pc = "list_variants"
    /\ \E now \in ClientTimes :
         LET c == req[r]
             gen == Attached(_get_doc(store, c.ref, "generation", now), "generation", c.anc)
             res == ListResult(store, "variant", Append(c.anc, c.id), NoArgs, now)
         IN  req' = [req EXCEPT ![r] =
                 IF gen = <<>> THEN Return(c, "none", <<>>)
                 ELSE Return(c, "model",
                          <<GenerationWithVariants(gen[1], res.models, c.id, now)>>)]
    /\ UNCHANGED <<store, clock>>
    /\ UNCHANGED accessor

\* get_generation_with_variants, its list_variants and the combined model
\* it returns.
with_variants(r) ==
    /\ req[r].pc = "list_variants"
    /\ \/ req' = [req EXCEPT ![r] = Raise(req[r], "storage")]
       \/ \E now \in ClientTimes :
            LET c == req[r]
                res == ListResult(store, "variant", Append(c.anc, c.id), NoArgs, now)
            IN  req' = [req EXCEPT ![r] =
                    IF res.tag = "error" THEN Raise(c, "parse")
                    ELSE Return(c, "model",
                             <<GenerationWithVariants(c.out[1], res.models, c.id, now)>>)]
    /\ UNCHANGED <<store, clock>>
    /\ UNCHANGED accessor

\* A new accessor over an empty database, no call made yet.
Init ==
    /\ store = EmptyStore
    /\ clock = 0
    /\ req = [r \in Procs |-> Idle]
    /\ accessor = [cached |-> 0, built |-> 0]

---------------------------------------------------------------------------
(* Inputs.                                                                  *)

\* The field every entity of the kind must carry.
RequiredFields(kind) == {f \in OwnFields(kind) : Required(kind, f)}

\* The smallest keyword arguments the kind's model accepts.
MinimalArgs(kind) == [f \in RequiredFields(kind) |-> Str("A")]

\* The one chain of ancestors the single-chain behaviours work under.
Chain(kind) ==
    LET ks == AncestorKinds(kind) IN [i \in DOMAIN ks |-> Ids(ks[i])[1]]

\* The model built by Kind(**kwargs) at client time `now`.
Entity(kind, kwargs, now) == Construct(kind, kwargs, now)

\* Kind(**kwargs) with the required fields filled in and `extra` on top.
Built(kind, extra, now) == Entity(kind, Merge(MinimalArgs(kind), extra), now)

\* The ancestors of the generations of every asset of the chain.
GenerationAncestors == {Append(Chain("asset"), a) : a \in IdSet("asset")}

---------------------------------------------------------------------------
(* Compound creates, with a second client reading while they run.           *)

CompoundScope ==
    [anc  |-> [k \in Kinds |-> IF k = "generation" THEN GenerationAncestors
                               ELSE {Chain(k)}],
     ids  |-> [k \in Kinds |-> {"", Ids(k)[1]}],
     ents |-> [k \in Kinds |-> {Built(k, EmptyMap, MaxClock + 1),
                                Built(k, Put(EmptyMap, "created_at", None), 0)}],
     upds |-> [k \in Kinds |-> {}],
     args |-> [k \in Kinds |-> {NoArgs}],
     max  |-> MaxClock]

\* What the reading client asks for: the first asset and its first generation.
ReaderScope ==
    [CompoundScope EXCEPT
        !.anc = [k \in Kinds |-> {Chain(k)}],
        !.ids = [k \in Kinds |-> {Ids(k)[1]}]]

NextCompound ==
    \/ create_asset_with_first_generation("r1", CompoundScope)
    \/ compound_get_asset("r1")
    \/ compound_get_generation("r1")
    \/ get("r2", "asset", ReaderScope)
    \/ get("r2", "generation", ReaderScope)

SpecCompound == Init /\ [][NextCompound]_vars

Compound == "create_asset_with_first_generation"

\* C1: with compound creates the only writers, an asset document exists
\* exactly when a generation document exists under it, in every state a
\* concurrent reader can observe: a committed call has both of its documents
\* in the store, a call whose transaction failed has left the store as it
\* found it, and an asset the reader was given has its generation.
C1_AssetIffFirstGeneration ==
    /\ \A p \in DocsOf(store, "asset") :
          \E q \in DocsOf(store, "generation") : Parent(Parent(q)) = p
    /\ \A q \in DocsOf(store, "generation") : Parent(Parent(q)) \in DOMAIN store
    /\ \A r \in Procs :
          req[r].op = Compound =>
             IF req[r].committed
             THEN /\ req[r].ref \in DOMAIN store
                  /\ req[r].ref2 \in DOMAIN store
                  /\ Parent(Parent(req[r].ref2)) = req[r].ref
             ELSE /\ req[r].err = "transaction"
                  /\ store = req[r].pre
    /\ \A r \in Procs :
          (req[r].op = "get" /\ req[r].ret = "model" /\ req[r].kind = "asset") =>
             \E q \in DocsOf(store, "generation") : Parent(Parent(q)) = req[r].ref

\* C1, its case: the transaction has committed, its read-backs are still to
\* come, and the reading client has been given the asset.
C1_Witness ==
    /\ req["r1"].op = Compound
    /\ req["r1"].pc = "get_asset"
    /\ req["r2"].op = "get" /\ req["r2"].kind = "asset" /\ req["r2"].ret = "model"
    /\ req["r2"].ref = req["r1"].ref

---------------------------------------------------------------------------
(* Compound creates, with a second client deleting the first asset.         *)

\* One entity of each kind is enough to tell a write from no write.
FailureScope ==
    [CompoundScope EXCEPT !.ents = [k \in Kinds |-> {Built(k, EmptyMap, MaxClock + 1)}]]

NextCompoundDelete ==
    \/ create_asset_with_first_generation("r1", FailureScope)
    \/ compound_get_asset("r1")
    \/ compound_get_generation("r1")
    \/ delete("r2", "asset", ReaderScope)

SpecCompoundDelete == Init /\ [][NextCompoundDelete]_vars

\* The compound create of request r has reported an error.
CompoundFailed(r) == req[r].op = Compound /\ req[r].ret = "error"

\* C2, as stated: whenever the compound create reports an error, the store
\* holds neither the asset document nor the generation document of the call.
C2_ErrorLeavesNeither ==
    \A r \in Procs :
        (CompoundFailed(r) /\ req[r].committed) =>
            /\ req[r].ref \notin DOMAIN store
            /\ req[r].ref2 \notin DOMAIN store

\* C2, amended: an error of the transaction leaves the store without any
\* write of the call; an error of the read-backs comes after the commit and
\* nothing is rolled back: the generation document stays as written, the
\* asset document stays unless the other client deleted it, and the step
\* that reports the error changes no document.
C2_ErrorKeepsCommittedWrites ==
    /\ [](\A r \in Procs :
            CompoundFailed(r) =>
               IF req[r].err = "transaction"
               THEN ~req[r].committed /\ req[r].ref = <<>> /\ req[r].ref2 = <<>>
               ELSE /\ req[r].committed
                    /\ req[r].ref2 \in DOMAIN store
                    /\ store[req[r].ref2] = _model_to_dict(req[r].entity2, FALSE)
                    /\ \/ /\ req[r].ref \in DOMAIN store
                          /\ store[req[r].ref] = _model_to_dict(req[r].entity, FALSE)
                       \/ /\ req[r].ref \notin DOMAIN store
                          /\ req["r2"].op = "delete"
                          /\ req["r2"].ref = req[r].ref)
    /\ [][\A r \in Procs :
            (req'[r].op = Compound /\ req'[r].ret = "error" /\ req'[r] # req[r])
                => store' = store]_vars

\* C2, its case: the transaction committed, the other client deleted the
\* asset, and the read-backs found it absent and reported the error.
C2_Witness ==
    /\ CompoundFailed("r1")
    /\ req["r1"].err = "read_back"
    /\ req["r1"].ref \notin DOMAIN store
    /\ req["r1"].ref2 \in DOMAIN store

---------------------------------------------------------------------------
(* One client creating, reading and listing entities of every kind.         *)

\* The fields a caller may pass as None.
Optional(kind) == {f \in Fields(kind) : FieldType(kind, f) \notin {"str", "list", "enum"}}

\* A value of each field type other than the model's default.
SampleValue(ty) ==
    CASE ty = "opt_str" -> Str("x")
      [] ty = "str" -> Str("B")
      [] ty = "opt_ts" -> Ts("client", MaxClock + 1)
      [] ty = "list" -> List(<<"t">>)
      [] ty = "enum" -> Str("completed")
      [] ty = "opt_map" -> Map("{a: 1}")
      [] ty = "opt_bool" -> Bool("True")

\* Keyword arguments passing None for every field that takes it.
AllNull(kind) == [f \in Optional(kind) |-> None]

\* Keyword arguments passing a value for every field.
AllSet(kind) == [f \in Fields(kind) |-> SampleValue(FieldType(kind, f))]

\* The entities the calls are given: the model's defaults, every optional
\* field None, every field set.
Entities(kind) ==
    {Built(kind, EmptyMap, MaxClock + 1), Built(kind, AllNull(kind), 0),
     Built(kind, AllSet(kind), 0)}

CrudScope ==
    [anc  |-> [k \in Kinds |-> {Chain(k)}],
     ids  |-> [k \in Kinds |-> {"", Ids(k)[1]}],
     ents |-> [k \in Kinds |-> Entities(k)],
     upds |-> [k \in Kinds |-> {}],
     args |-> [k \in Kinds |-> {NoArgs}],
     max  |-> MaxClock]

\* The store holds documents of this kind only.
OneKind(kind) == DocsOf(store, kind) = DOMAIN store

Next ==
    \/ \E kind \in Kinds : OneKind(kind) /\ create("r1", kind, CrudScope)
    \/ read_back("r1")
    \/ \E kind \in Kinds : get("r1", kind, CrudScope)
    \/ \E kind \in Kinds : list("r1", kind, CrudScope)

Spec == Init /\ [][Next]_vars

\* What get returns for the document at `ref` on store `st`.
GetResult(st, kind, anc, ref, now) == Attached(_get_doc(st, ref, kind, now), kind, anc)

\* Request r is a create that has returned its entity.
Created(r) == req[r].op = "create" /\ req[r].pc = "done" /\ req[r].ret = "model"

\* The fields a caller gives a value to when building the entity e: those
\* holding a value, and those holding None against a default that is not.
Specified(kind, e) ==
    {f \in OwnFields(kind) \cup {"created_at"} :
        e[f] # None \/ FieldDefault(kind, f, 0) # None}

\* C3, as stated: after Create(e), Get of the returned id equals e on every
\* field e specified, the explicit nulls included.
C3_RoundTripEveryField ==
    \A r \in Procs : Created(r) =>
        \A now \in ClientTimes :
            LET got == GetResult(store, req[r].kind, req[r].anc, req[r].ref, now)
            IN  /\ got = req[r].out
                /\ \A f \in Specified(req[r].kind, req[r].entity) :
                      got[1][f] = req[r].entity[f]

\* C3, amended: after Create(e), Get of the returned id returns what Create
\* returned; it equals e on every field of e that is not None (a created_at
\* carried by e included); a field e holds None for reads back as the
\* model's default, created_at as a store timestamp; id is the document's
\* id, the ancestor ids are the path's, updated_at is a store timestamp.
C3_RoundTripNonNullFields ==
    \A r \in Procs : Created(r) =>
        \A now \in ClientTimes :
            LET kind == req[r].kind
                e == req[r].entity
                meta == Metadata(kind, req[r].anc)
                got == GetResult(store, kind, req[r].anc, req[r].ref, now)
            IN  /\ got = req[r].out
                /\ got[1]["id"] = Str(DocId(req[r].ref))
                /\ got[1]["updated_at"].k = "ts" /\ got[1]["updated_at"].src = "server"
                /\ \A f \in Fields(kind) \ {"id", "updated_at"} :
                      CASE f \in DOMAIN meta -> got[1][f] = meta[f]
                        [] e[f] # None -> got[1][f] = e[f]
                        [] f = "created_at" ->
                              got[1][f].k = "ts" /\ got[1][f].src = "server"
                        [] OTHER -> got[1][f] = FieldDefault(kind, f, now)

\* C3, its case: a project created with settings None over a document that
\* held settings has been read back.
C3_Witness ==
    /\ Created("r1")
    /\ req["r1"].kind = "project"
    /\ req["r1"].entity["settings"] = None
    /\ req["r1"].ref \in DOMAIN req["r1"].pre
    /\ "settings" \in DOMAIN req["r1"].pre[req["r1"].ref]
    /\ req["r1"].out[1]["settings"] = Map("{}")

\* The entity fields that name the ancestors, outermost first.
AncestorFields == <<"org_id", "project_id", "asset_id", "generation_id">>

\* Request r has returned entities from a create, a get or a list.
Returned(r) ==
    /\ req[r].op \in {"create", "get", "list"}
    /\ req[r].pc = "done"
    /\ req[r].ret \in {"model", "list"}

\* C10: every entity returned by a create, a get or a list carries each id
\* of its ancestor chain, equal to the path segment the call was given:
\* org_id for projects, org_id and project_id for assets, themes and
\* concept images, asset_id too for generations, generation_id too for
\* variants.
C10_AncestorIdsOnRead ==
    \A r \in Procs : Returned(r) =>
        \A i \in DOMAIN req[r].out : \A j \in DOMAIN req[r].anc :
            /\ AncestorFields[j] \in DOMAIN req[r].out[i]
            /\ req[r].out[i][AncestorFields[j]] = Str(req[r].anc[j])

---------------------------------------------------------------------------
(* One client creating, compound-creating, updating and reading.            *)

\* The kinds the accessor has an update for.
UpdateKinds == {k \in Kinds : "update" \in AccessorOps(k)}

\* A field of the kind a caller may update to a string.
UpdatedField(kind) == IF kind = "generation" THEN "notes" ELSE "name"

\* The field maps the updates are given: none, one field, a caller's
\* updated_at.
Updates(kind) ==
    {EmptyMap,
     Put(EmptyMap, UpdatedField(kind), Str("C")),
     Put(EmptyMap, "updated_at", Ts("client", MaxClock + 1))}

UpdateScope ==
    [anc  |-> [k \in Kinds |-> {Chain(k)}],
     ids  |-> [k \in Kinds |-> {Ids(k)[1]}],
     ents |-> [k \in Kinds |-> {Built(k, EmptyMap, MaxClock + 1), Built(k, AllSet(k), 0)}],
     upds |-> [k \in Kinds |-> Updates(k)],
     args |-> [k \in Kinds |-> {NoArgs}],
     max  |-> MaxClock]

\* The kinds whose documents a behaviour holds together.
Together(kind) ==
    IF kind \in {"asset", "generation"} THEN {"asset", "generation"} ELSE {kind}

\* The store holds documents of these kinds only.
Only(S) == \A p \in DOMAIN store : DocKind(p) \in S

NextUpdate ==
    \/ \E kind \in UpdateKinds : Only(Together(kind)) /\ create("r1", kind, UpdateScope)
    \/ read_back("r1")
    \/ \E kind \in UpdateKinds : update("r1", kind, UpdateScope)
    \/ \E kind \in UpdateKinds : get("r1", kind, UpdateScope)
    \/ Only(Together("asset")) /\ create_asset_with_first_generation("r1", UpdateScope)
    \/ compound_get_asset("r1")
    \/ compound_get_generation("r1")

SpecUpdate == Init /\ [][NextUpdate]_vars

\* The value is a timestamp the store's clock assigned.
ServerTime(v) == v.k = "ts" /\ v.src = "server"

\* C4: every document in the store has created_at and updated_at, both
\* assigned by the store's clock and not taken from the entity the client
\* built, with created_at <= updated_at.
C4_ServerTimestamps ==
    \A p \in DOMAIN store :
        /\ "created_at" \in DOMAIN store[p]
        /\ "updated_at" \in DOMAIN store[p]
        /\ ServerTime(store[p]["created_at"])
        /\ ServerTime(store[p]["updated_at"])
        /\ store[p]["created_at"].t <= store[p]["updated_at"].t

\* Request r is an update that has returned.
Updated(r) == req[r].op = "update" /\ req[r].pc = "done" /\ req[r].ret = "ok"

\* C5: after Update(id, updates) of an existing document, Get returns each
\* updated field with its new value, every other stored field (created_at
\* included) as it was, and an updated_at assigned by the store and
\* strictly greater than the one before the update.
C5_PartialUpdate ==
    \A r \in Procs : (Updated(r) /\ req[r].updates # EmptyMap) =>
        \A now \in ClientTimes :
            LET kind == req[r].kind
                before == GetResult(req[r].pre, kind, req[r].anc, req[r].ref, now)[1]
                after == GetResult(store, kind, req[r].anc, req[r].ref, now)[1]
            IN  /\ \A f \in DOMAIN req[r].updates \ {"updated_at"} :
                      after[f] = req[r].updates[f]
                /\ \A f \in DOMAIN req[r].pre[req[r].ref] \ DOMAIN req[r].updates :
                      f # "updated_at" => after[f] = before[f]
                /\ ServerTime(after["updated_at"])
                /\ before["updated_at"] # None =>
                      after["updated_at"].t > before["updated_at"].t

\* C6: an update with an empty field map fails with a validation error and
\* issues no store call: the document is neither looked up nor written.
C6_EmptyUpdateRejected ==
    \A r \in Procs :
        (req[r].op = "update" /\ req[r].pc = "done" /\ req[r].updates = EmptyMap) =>
            /\ req[r].ret = "error"
            /\ req[r].err = "validation"
            /\ store = req[r].pre

---------------------------------------------------------------------------
(* One client building a tree of documents and deleting parents.            *)

\* The kinds that live below an organization.
TreeKinds == Kinds \ {"user"}

\* The kinds the accessor has a delete for.
DeleteKinds == {k \in Kinds : "delete" \in AccessorOps(k)}

DeleteScope ==
    [anc  |-> [k \in Kinds |-> {Chain(k)}],
     ids  |-> [k \in Kinds |-> {Ids(k)[1]}],
     ents |-> [k \in Kinds |-> {Built(k, EmptyMap, 0)}],
     upds |-> [k \in Kinds |-> {}],
     args |-> [k \in Kinds |-> {NoArgs}],
     max  |-> MaxClock]

\* The compound create is also given entities without a created_at.
OrphanScope ==
    [DeleteScope EXCEPT
        !.ents = [k \in Kinds |-> {Built(k, EmptyMap, 0),
                                   Built(k, Put(EmptyMap, "created_at", None), 0)}]]

NextDelete ==
    \/ \E kind \in TreeKinds : create("r1", kind, DeleteScope)
    \/ read_back("r1")
    \/ create_asset_with_first_generation("r1", OrphanScope)
    \/ compound_get_asset("r1")
    \/ compound_get_generation("r1")
    \/ \E kind \in DeleteKinds : delete("r1", kind, DeleteScope)
    \/ \E kind \in TreeKinds : get("r1", kind, DeleteScope)
    \/ \E kind \in TreeKinds : list("r1", kind, DeleteScope)

SpecDelete == Init /\ [][NextDelete]_vars

\* Request r is a delete that has returned.
Deleted(r) == req[r].op = "delete" /\ req[r].pc = "done" /\ req[r].ret = "ok"

\* C7: a delete errs only when the store call fails, never because the
\* document is missing; once it has returned, Get of the id returns absent,
\* and if the document was already missing the store is as it was.
C7_DeleteIdempotent ==
    \A r \in Procs : (req[r].op = "delete" /\ req[r].pc = "done") =>
        IF req[r].ret = "ok"
        THEN /\ req[r].ref \notin DOMAIN store
             /\ \A now \in ClientTimes :
                   _get_doc(store, req[r].ref, req[r].kind, now) = NoModel
             /\ req[r].ref \notin DOMAIN req[r].pre => store = req[r].pre
        ELSE req[r].err = "storage" /\ store = req[r].pre

\* C7, its case: a delete of an id that had no document has returned
\* without error.
C7_Witness ==
    /\ Deleted("r1")
    /\ req["r1"].ref \notin DOMAIN req["r1"].pre
    /\ req["r1"].pre # EmptyStore

\* The ancestor ids a path names.
PathAncestors(path) == [i \in 1..((Len(path) \div 2) - 1) |-> path[2 * i]]

\* The ids of the documents list returns for the collection of `path`.
Listed(st, path, now) ==
    LET res == ListResult(st, DocKind(path), PathAncestors(path), NoArgs, now)
    IN  {res.models[i]["id"] : i \in DOMAIN res.models}

---------------------------------------------------------------------------
(* One client creating tagged assets and concept images and listing them    *)
(* by tag.                                                                  *)

TaggedKinds == {"asset", "conceptImage"}

\* The tag lists the entities carry and the tags the lists ask for.
TagLists == {<<"robot">>, <<"">>, <<>>}
Tags == {"robot", "", "none"}

\* list_assets(where=[('tags', 'array_contains', T)])
TagClause(T) == << <<"tags", "array_contains", T>> >>

\* The list arguments: no filter, or a tag.
TagArgs(kind) ==
    IF kind = "asset"
    THEN {NoArgs} \cup {[NoArgs EXCEPT !.where = TagClause(T)] : T \in Tags}
    ELSE {NoArgs} \cup {[NoArgs EXCEPT !.tag = Str(T)] : T \in Tags}

FilterScope ==
    [anc  |-> [k \in Kinds |-> {Chain(k)}],
     ids  |-> [k \in Kinds |-> {"", Ids(k)[1]}],
     ents |-> [k \in Kinds |->
                 IF k \in TaggedKinds
                 THEN {Built(k, Put(EmptyMap, "tags", List(l)), 0) : l \in TagLists}
                 ELSE {}],
     upds |-> [k \in Kinds |-> {}],
     args |-> [k \in Kinds |-> TagArgs(k)],
     max  |-> MaxClock]

NextFilter ==
    \/ \E kind \in TaggedKinds : OneKind(kind) /\ create("r1", kind, FilterScope)
    \/ read_back("r1")
    \/ \E kind \in TaggedKinds : list("r1", kind, FilterScope)

SpecFilter == Init /\ [][NextFilter]_vars

\* The tag a list call was asked to filter by, if any.
Filtered(c) == c.args.where # <<>> \/ c.args.tag # None
AskedTag(c) == IF c.args.where # <<>> THEN c.args.where[1][3] ELSE c.args.tag.s

\* C9: a list by tag T returns exactly the documents of the collection
\* whose tag list contains T, for every T, the empty string included; a
\* list without a filter returns every document of the collection; a list
\* that matches nothing returns the empty list and no error.
C9_FilterCorrect ==
    \A r \in Procs : (req[r].op = "list" /\ req[r].pc = "done") =>
        LET c == req[r]
            docs == DocsIn(store, c.ref)
            want == IF Filtered(c)
                    THEN {p \in docs : AskedTag(c) \in Range(store[p]["tags"].l)}
                    ELSE docs
        IN  \/ c.err = "storage"
            \/ /\ c.ret = "list"
               /\ {c.out[i]["id"] : i \in DOMAIN c.out} = {Str(DocId(p)) : p \in want}
               /\ Len(c.out) = Cardinality(want)

---------------------------------------------------------------------------
(* The REST handlers of src/api/index.py for a single resource: GET, PATCH  *)
(* and DELETE.  A handler runs accessor calls one after the other; a call   *)
(* of a method the accessor does not define raises AttributeError, which    *)
(* no handler catches and the framework answers with 500.                   *)

HTTP_200_OK == 200
HTTP_204_NO_CONTENT == 204
HTTP_400_BAD_REQUEST == 400
HTTP_404_NOT_FOUND == 404
HTTP_500_INTERNAL_SERVER_ERROR == 500

\* The handler of request c answers with `status`; `why` names what raised.
Respond(c, status, why, out) ==
    [c EXCEPT !.pc = "done", !.ret = "response", !.status = status,
              !.err = why, !.out = out]

\* _require_updates: the fields of the body that are set and not None.
_require_updates(body) == [f \in {g \in DOMAIN body : body[g] # None} |-> body[f]]

\* What a GET handler makes of accessor.get_<kind> on store `st`: 500 for
\* a method the accessor lacks or a FirestoreError, 404 for None, else 200.
GetOutcome(st, kind, anc, ref, now) ==
    IF "get" \notin AccessorOps(kind)
    THEN [status |-> HTTP_500_INTERNAL_SERVER_ERROR, why |-> "attribute", out |-> <<>>]
    ELSE LET res == _get_doc(st, ref, kind, now)
         IN  CASE res.tag = "error" ->
                    [status |-> HTTP_500_INTERNAL_SERVER_ERROR, why |-> "parse", out |-> <<>>]
               [] res.tag = "none" ->
                    [status |-> HTTP_404_NOT_FOUND, why |-> "", out |-> <<>>]
               [] OTHER ->
                    [status |-> HTTP_200_OK, why |-> "", out |-> Attached(res, kind, anc)]

\* The request after the GET handler ran as a pre-check: its error
\* response, or the handler's next position.
PreCheck(c, outcome, next) ==
    IF outcome.status = HTTP_200_OK THEN [c EXCEPT !.pc = next]
    ELSE Respond(c, outcome.status, outcome.why, <<>>)

\* GET /<collection>/{id}: get_organization ... get_user.
rest_get(r, kind, sc) ==
    /\ Free(r)
    /\ \E anc \in sc.anc[kind], id \in sc.ids[kind] \ {""} :
        LET c == [Call("GET", kind, anc, id) EXCEPT !.ref = Document(Col(kind, anc), id)]
        IN  \/ /\ "get" \in AccessorOps(kind)
               /\ req' = [req EXCEPT ![r] =
                       Respond(c, HTTP_500_INTERNAL_SERVER_ERROR, "storage", <<>>)]
            \/ \E now \in ClientTimes :
                 LET o == GetOutcome(store, kind, anc, c.ref, now)
                 IN  req' = [req EXCEPT ![r] = Respond(c, o.status, o.why, o.out)]
    /\ UNCHANGED <<store, clock>>
    /\ UNCHANGED accessor

\* PATCH /<collection>/{id}, up to the end of the pre-check:
\* _require_updates, then the GET handler.
rest_patch(r, kind, sc) ==
    /\ Free(r)
    /\ \E anc \in sc.anc[kind], id \in sc.ids[kind] \ {""}, body \in sc.bodies[kind] :
        LET c == [Call("PATCH", kind, anc, id) EXCEPT
                     !.ref = Document(Col(kind, anc), id), !.entity = body,
                     !.updates = _require_updates(body)]
        IN  IF c.updates = EmptyMap
            THEN req' = [req EXCEPT ![r] =
                     Respond(c, HTTP_400_BAD_REQUEST, "validation", <<>>)]
            ELSE \/ /\ "get" \in AccessorOps(kind)
                    /\ req' = [req EXCEPT ![r] =
                            Respond(c, HTTP_500_INTERNAL_SERVER_ERROR, "storage", <<>>)]
                 \/ \E now \in ClientTimes :
                      req' = [req EXCEPT ![r] =
                          PreCheck(c, GetOutcome(store, kind, anc, c.ref, now), "patch_update")]
    /\ UNCHANGED <<store, clock>>
    /\ UNCHANGED accessor

\* PATCH, the accessor.update_<kind> call.
patch_update(r, sc) ==
    /\ req[r].pc = "patch_update"
    /\ LET c == req[r]
       IN  IF "update" \notin AccessorOps(c.kind)
           THEN /\ req' = [req EXCEPT ![r] =
                        Respond(c, HTTP_500_INTERNAL_SERVER_ERROR, "attribute", <<>>)]
                /\ UNCHANGED <<store, clock>>
           ELSE \/ /\ req' = [req EXCEPT ![r] =
                           Respond(c, HTTP_500_INTERNAL_SERVER_ERROR, "storage", <<>>)]
                   /\ UNCHANGED <<store, clock>>
                \/ /\ c.ref \notin DOMAIN store
                   /\ req' = [req EXCEPT ![r] =
                           Respond(c, HTTP_500_INTERNAL_SERVER_ERROR, "not_found", <<>>)]
                   /\ UNCHANGED <<store, clock>>
                \/ /\ c.ref \in DOMAIN store
                   /\ clock < sc.max
                   /\ store' = _update_doc(store, c.ref, c.updates, clock + 1)
                   /\ clock' = clock + 1
                   /\ req' = [req EXCEPT ![r] = [c EXCEPT !.pc = "patch_get"]]
    /\ UNCHANGED accessor

\* PATCH, the accessor.get_<kind> call after the update and the assert on
\* its result.
patch_get(r) ==
    /\ req[r].pc = "patch_get"
    /\ LET c == req[r]
       IN  \/ req' = [req EXCEPT ![r] =
                   Respond(c, HTTP_500_INTERNAL_SERVER_ERROR, "storage", <<>>)]
           \/ \E now \in ClientTimes :
                LET o == GetOutcome(store, c.kind, c.anc, c.ref, now)
                IN  req' = [req EXCEPT ![r] =
                        IF o.status = HTTP_404_NOT_FOUND
                        THEN Respond(c, HTTP_500_INTERNAL_SERVER_ERROR, "assertion", <<>>)
                        ELSE Respond(c, o.status, o.why, o.out)]
    /\ UNCHANGED <<store, clock>>
    /\ UNCHANGED accessor

\* DELETE /<collection>/{id}, the pre-check: the GET handler.
rest_delete(r, kind, sc) ==
    /\ Free(r)
    /\ \E anc \in sc.anc[kind], id \in sc.ids[kind] \ {""} :
        LET c == [Call("DELETE", kind, anc, id) EXCEPT !.ref = Document(Col(kind, anc), id)]
        IN  \/ /\ "get" \in AccessorOps(kind)
               /\ req' = [req EXCEPT ![r] =
                       Respond(c, HTTP_500_INTERNAL_SERVER_ERROR, "storage", <<>>)]
            \/ \E now \in ClientTimes :
                 req' = [req EXCEPT ![r] =
                     PreCheck(c, GetOutcome(store, kind, anc, c.ref, now), "delete_call")]
    /\ UNCHANGED <<store, clock>>
    /\ UNCHANGED accessor

\* DELETE, the accessor.delete_<kind> call.
delete_call(r) ==
    /\ req[r].pc = "delete_call"
    /\ LET c == req[r]
       IN  IF "delete" \notin AccessorOps(c.kind)
           THEN /\ req' = [req EXCEPT ![r] =
                        Respond(c, HTTP_500_INTERNAL_SERVER_ERROR, "attribute", <<>>)]
                /\ UNCHANGED store
           ELSE \/ /\ req' = [req EXCEPT ![r] =
                           Respond(c, HTTP_500_INTERNAL_SERVER_ERROR, "storage", <<>>)]
                   /\ UNCHANGED store
                \/ /\ store' = _delete_doc(store, c.ref)
                   /\ req' = [req EXCEPT ![r] =
                           Respond(c, HTTP_204_NO_CONTENT, "", <<>>)]
    /\ UNCHANGED clock
    /\ UNCHANGED accessor

---------------------------------------------------------------------------
(* One client creating documents and sending GET, PATCH and DELETE.         *)

\* A field of the kind's update schema.
PatchedField(kind) ==
    CASE kind = "generation" -> "notes"
      [] kind = "variant" -> "feedback"
      [] kind = "conceptImage" -> "image_url"
      [] kind = "theme" -> "description"
      [] OTHER -> "name"

\* The PATCH bodies: no field, a field set to null, a field set.
Bodies(kind) ==
    {EmptyMap,
     Put(EmptyMap, PatchedField(kind), None),
     Put(EmptyMap, PatchedField(kind), Str("C"))}

RestScope ==
    [anc    |-> [k \in Kinds |-> {Chain(k)}],
     ids    |-> [k \in Kinds |-> {Ids(k)[1]}],
     ents   |-> [k \in Kinds |-> {Built(k, Put(EmptyMap, "created_at", None), 0)}],
     upds   |-> [k \in Kinds |-> {}],
     args   |-> [k \in Kinds |-> {NoArgs}],
     bodies |-> [k \in Kinds |-> Bodies(k)],
     max    |-> MaxClock]

NextRest ==
    \/ \E kind \in Kinds : OneKind(kind) /\ create("r1", kind, RestScope)
    \/ read_back("r1")
    \/ \E kind \in Kinds : get("r1", kind, RestScope)
    \/ \E kind \in Kinds : rest_get("r1", kind, RestScope)
    \/ \E kind \in Kinds : rest_patch("r1", kind, RestScope)
    \/ patch_update("r1", RestScope)
    \/ patch_get("r1")
    \/ \E kind \in Kinds : rest_delete("r1", kind, RestScope)
    \/ delete_call("r1")

SpecRest == Init /\ [][NextRest]_vars

\* Request r is a handler that has answered without a failed store call.
Answered(r, method) ==
    /\ req[r].op = method
    /\ req[r].pc = "done"
    /\ req[r].err # "storage"

\* C11: for a path with no document the accessor's get returns the absent
\* value, raising only when the store call fails, and the GET handler
\* answers 404, with 500 only when the store call fails; neither changes
\* the store.
C11_NotFoundIsAValue ==
    \A r \in Procs :
        /\ (req[r].op = "get" /\ req[r].pc = "done" /\ req[r].ref \notin DOMAIN store) =>
              \/ req[r].ret = "none"
              \/ req[r].ret = "error" /\ req[r].err = "storage"
        /\ (req[r].op = "GET" /\ req[r].pc = "done" /\ req[r].ref \notin DOMAIN req[r].pre) =>
              /\ store = req[r].pre
              /\ \/ req[r].status = HTTP_404_NOT_FOUND
                 \/ /\ req[r].status = HTTP_500_INTERNAL_SERVER_ERROR
                    /\ req[r].err = "storage"

\* C12: every kind has the five accessor operations, so no handler ends
\* on a call of a method the accessor does not define.
C12_UniformOperations ==
    /\ \A kind \in Kinds : AccessorOps(kind) = {"create", "get", "list", "update", "delete"}
    /\ \A r \in Procs : req[r].err # "attribute"

\* C13: a PATCH without a failed store call answers 400 when the body
\* carries no field, 404 when the document does not exist, and otherwise
\* 200 with the entity as it reads after the update, the patched fields in
\* it; the store is modified in the 200 case only.
C13_PatchOutcome ==
    \A r \in Procs : Answered(r, "PATCH") =>
        LET c == req[r]
        IN  CASE c.updates = EmptyMap ->
                    c.status = HTTP_400_BAD_REQUEST /\ store = c.pre
              [] c.updates # EmptyMap /\ c.ref \notin DOMAIN c.pre ->
                    c.status = HTTP_404_NOT_FOUND /\ store = c.pre
              [] OTHER ->
                    /\ c.status = HTTP_200_OK
                    /\ store # c.pre
                    /\ \E now \in ClientTimes :
                          c.out = GetResult(store, c.kind, c.anc, c.ref, now)
                    /\ \A f \in DOMAIN c.updates : c.out[1][f] = c.updates[f]

\* C14: a DELETE without a failed store call answers 404 and deletes
\* nothing when the document does not exist; on an existing document it
\* answers 204, the document is gone and a GET of it answers 404.
C14_DeleteOutcome ==
    \A r \in Procs : Answered(r, "DELETE") =>
        LET c == req[r]
        IN  IF c.ref \notin DOMAIN c.pre
            THEN c.status = HTTP_404_NOT_FOUND /\ store = c.pre
            ELSE /\ c.status = HTTP_204_NO_CONTENT
                 /\ c.ref \notin DOMAIN store
                 /\ \A now \in ClientTimes :
                       GetOutcome(store, c.kind, c.anc, c.ref, now).status
                           = HTTP_404_NOT_FOUND

---------------------------------------------------------------------------
(* One client creating with and without an id, updating (the key 'id'       *)
(* included), reading and deleting.                                         *)

\* The field maps of the updates: an id, a null id, another field.
IdUpdates(kind) ==
    {Put(EmptyMap, "id", Str("other")),
     Put(EmptyMap, "id", None),
     Put(EmptyMap, UpdatedField(kind), Str("C"))}

IdScope ==
    [anc  |-> [k \in Kinds |-> {Chain(k)}],
     ids  |-> [k \in Kinds |-> {"", Ids(k)[1]}],
     ents |-> [k \in Kinds |-> {Built(k, EmptyMap, 0),
                                Built(k, Put(EmptyMap, "id", Str("mine")), 0)}],
     upds |-> [k \in Kinds |-> IdUpdates(k)],
     args |-> [k \in Kinds |-> {NoArgs}],
     max  |-> MaxClock]

NextIds ==
    \/ \E kind \in Kinds : OneKind(kind) /\ create("r1", kind, IdScope)
    \/ read_back("r1")
    \/ \E kind \in UpdateKinds : update("r1", kind, IdScope)
    \/ \E kind \in Kinds : get("r1", kind, IdScope)
    \/ \E kind \in DeleteKinds : delete("r1", kind, IdScope)

SpecIds == Init /\ [][NextIds]_vars

\* C15: a create given the id X returns an entity with id X and stores it
\* at X in the target collection; a create given no id returns an id no
\* document of the collection had; and every stored document reads, through
\* get, as an entity whose id is the id of its path, whatever the updates
\* wrote into it, the key 'id' included.
C15_IdAssignment ==
    /\ \A r \in Procs : Created(r) =>
          /\ req[r].out[1]["id"] = Str(DocId(req[r].ref))
          /\ Parent(req[r].ref) = Col(req[r].kind, req[r].anc)
          /\ req[r].ref \in DOMAIN store
          /\ IF req[r].id # "" THEN DocId(req[r].ref) = req[r].id
             ELSE \A p \in DocsIn(req[r].pre, Parent(req[r].ref)) :
                     DocId(p) # DocId(req[r].ref)
    /\ \A p \in DOMAIN store : \A now \in ClientTimes :
          "get" \in AccessorOps(DocKind(p)) =>
             LET got == GetResult(store, DocKind(p), PathAncestors(p), p, now)
             IN  Len(got) = 1 /\ got[1]["id"] = Str(DocId(p))
    /\ \A r \in Procs :
          (req[r].op = "get" /\ req[r].ret = "model") =>
              req[r].out[1]["id"] = Str(req[r].id)

\* C15, its case: an update has written another id into the field 'id'
\* of a stored document.
C15_Witness ==
    /\ Updated("r1")
    /\ "id" \in DOMAIN req["r1"].updates
    /\ store[req["r1"].ref]["id"] = Str("other")

\* ------------------------------------------------------------------------
\* Generation status: create_generation, update_generation, get_generation.

\* The updates update_generation is given: the status set to each value
\* of the enum, and to a string that is none of them.
StatusUpdates ==
    {Put(EmptyMap, "status", Str(s)) : s \in GenerationStatus \cup {"bogus"}}

\* A generation built without a status.
NoStatus == Built("generation", EmptyMap, 0)

StatusScope ==
    [anc  |-> [k \in Kinds |-> {Chain(k)}],
     ids  |-> [k \in Kinds |-> {Ids(k)[1]}],
     ents |-> [k \in Kinds |->
                 {NoStatus} \cup
                 {Built("generation", Put(EmptyMap, "status", Str(s)), 0) :
                      s \in GenerationStatus}],
     upds |-> [k \in Kinds |-> StatusUpdates],
     args |-> [k \in Kinds |-> {NoArgs}],
     max  |-> MaxClock]

NextStatus ==
    \/ create("r1", "generation", StatusScope)
    \/ read_back("r1")
    \/ update("r1", "generation", StatusScope)
    \/ get("r1", "generation", StatusScope)

SpecStatus == Init /\ [][NextStatus]_vars

\* C16: a generation created without a status is returned, stored and read
\* with status 'pending'; an update_generation of an existing generation
\* to any of the four status values is refused by nothing but a store
\* fault, whatever the status before, and once it has returned
\* get_generation gives the status it was given.
C16_StatusUnconstrained ==
    /\ \A r \in Procs : (Created(r) /\ req[r].entity = NoStatus) =>
          /\ req[r].out[1]["status"] = Str("pending")
          /\ \A now \in ClientTimes :
                GetResult(store, "generation", req[r].anc, req[r].ref, now)[1]["status"]
                    = Str("pending")
    /\ \A r \in Procs :
          (/\ req[r].op = "update" /\ req[r].pc = "done"
           /\ req[r].ref \in DOMAIN req[r].pre
           /\ req[r].updates["status"].s \in GenerationStatus) =>
              /\ req[r].ret = "ok" \/ req[r].err = "storage"
              /\ req[r].ret = "ok" =>
                    \A now \in ClientTimes :
                        LET got == GetResult(store, "generation", req[r].anc, req[r].ref, now)
                        IN  Len(got) = 1 /\ got[1]["status"] = req[r].updates["status"]
    /\ \A r \in Procs : (req[r].op = "get" /\ req[r].ret = "model") =>
          req[r].out[1]["status"] = store[req[r].ref]["status"]

\* C16, its case: an update has taken a completed generation back to
\* pending.
C16_Witness ==
    /\ Updated("r1")
    /\ req["r1"].pre[req["r1"].ref]["status"] = Str("completed")
    /\ store[req["r1"].ref]["status"] = Str("pending")

\* C17: a get of a stored document that does not fit the entity shape
\* raises; unless the store itself failed, the error is the conversion's
\* and carries the id of the document; the get returns neither None nor
\* an entity, and the store is as it was.
C17_ParseErrorOnRead ==
    [][\A r \in Procs :
          (/\ req'[r] # req[r]
           /\ req'[r].op = "get" /\ req'[r].pc = "done"
           /\ req'[r].ref \in DOMAIN store
           /\ ~Constructible(req'[r].kind,
                  Put(store[req'[r].ref], "id", Str(req'[r].id)))) =>
              /\ req'[r].ret = "error"
              /\ req'[r].err \in {"parse", "storage"}
              /\ req'[r].err = "parse" =>
                    req'[r].out = <<Put(EmptyMap, "id", Str(req'[r].id))>>
              /\ store' = store]_vars

\* C17, its case: update_generation has stored a status that is no member
\* of the enum, and the get of that generation has raised.
C17_Witness ==
    /\ req["r1"].op = "get" /\ req["r1"].pc = "done"
    /\ req["r1"].ref \in DOMAIN store
    /\ store[req["r1"].ref]["status"] = Str("bogus")
    /\ req["r1"].err = "parse"

\* ------------------------------------------------------------------------
\* The aggregation helper: request r1 reads, request r2 writes.

\* The calls of the two requests; the stamped writes of a behaviour cover
\* the generation, its update and two variants.
AggregateScope ==
    [anc  |-> [k \in Kinds |-> {Chain(k)}],
     ids  |-> [k \in Kinds |-> IF k = "variant" THEN IdSet(k) ELSE {Ids(k)[1]}],
     ents |-> [k \in Kinds |->
                 {Built(k, EmptyMap, 0)} \cup
                 IF k = "variant"
                 THEN {Built(k, Put(EmptyMap, "image_url", Str("B")), 0)}
                 ELSE {}],
     upds |-> [k \in Kinds |-> {Put(EmptyMap, "status", Str("completed"))}],
     args |-> [k \in Kinds |-> {NoArgs}],
     max  |-> MaxClock + 2]

NextAggregate ==
    \/ DocsOf(store, "generation") = {} /\ create("r2", "generation", AggregateScope)
    \/ create("r2", "variant", AggregateScope)
    \/ read_back("r2")
    \/ update("r2", "generation", AggregateScope)
    \/ get_generation_with_variants("r1", AggregateScope)
    \/ with_variants("r1")

SpecAggregate == Init /\ [][NextAggregate]_vars

\* C18: a get_generation_with_variants during which the store was not
\* written, and whose store calls did not fail, returns None when the
\* generation document does not exist, whatever variants lie under its
\* path; otherwise it returns a model with the id it was asked for, with
\* every field get_generation returns, and with one variant per document
\* of the generation's variants collection, each as get_variant reads it.
C18_ViewWithoutWrites ==
    \A r \in Procs :
        (/\ req[r].op = "get_generation_with_variants" /\ req[r].pc = "done"
         /\ req[r].pre = store
         /\ req[r].ret # "error") =>
            IF req[r].ref \notin DOMAIN store THEN req[r].ret = "none"
            ELSE /\ req[r].ret = "model"
                 /\ \A now \in ClientTimes :
                      LET view == req[r].out[1]
                          gen == GetResult(store, "generation", req[r].anc, req[r].ref, now)[1]
                          vs == view["variants"].l
                          docs == DocsIn(store, req[r].ref2)
                      IN  /\ view["id"] = Str(req[r].id)
                          /\ \A f \in DOMAIN gen : view[f] = gen[f]
                          /\ Len(vs) = Cardinality(docs)
                          /\ \A q \in docs : \E i \in DOMAIN vs :
                                vs[i] = GetResult(store, "variant",
                                              Append(req[r].anc, req[r].id), q, now)[1]

\* C18, its case: the generation was created and set to completed, two
\* variants were created with different URLs, and the helper returned.
C18_Witness ==
    /\ req["r1"].op = "get_generation_with_variants" /\ req["r1"].ret = "model"
    /\ req["r1"].pre = store
    /\ req["r1"].out[1]["status"] = Str("completed")
    /\ {v["image_url"] : v \in Range(req["r1"].out[1]["variants"].l)} = {Str("A"), Str("B")}

\* C19: the helper reads the store twice, in two steps that write nothing.
\* The step that returns the combined model puts together the generation
\* as it was in the store when the call started and the variants as they
\* are in the store when it returns.
C19_TwoSeparateReads ==
    [][\A r \in Procs :
          /\ (req'[r].pc = "list_variants" /\ req[r].pc # "list_variants") =>
                /\ req'[r].pre = store /\ store' = store
                /\ \E now \in ClientTimes :
                      req'[r].out = GetResult(store, "generation", req'[r].anc,
                                              req'[r].ref, now)
          /\ (req[r].pc = "list_variants" /\ req'[r].ret = "model") =>
                /\ store' = store
                /\ \E now \in ClientTimes :
                      LET view == req'[r].out[1]
                          gen == GetResult(req[r].pre, "generation", req[r].anc,
                                           req[r].ref, now)[1]
                      IN  /\ \A f \in DOMAIN gen : view[f] = gen[f]
                          /\ view["variants"].l =
                                ListResult(store, "variant",
                                    Append(req[r].anc, req[r].id), NoArgs, now).models]_vars

\* C19, its case: between the two reads the other request set the
\* generation to completed and then created a variant, so the store went
\* through the states before the update, before the create and after it,
\* and the model returned (a pending generation with one variant) is the
\* content of none of them.
C19_Witness ==
    LET c == req["r1"]
        view == c.out[1]
        same(st) ==
            /\ c.ref \in DOMAIN st
            /\ st[c.ref]["status"] = view["status"]
            /\ {DocId(q) : q \in DocsIn(st, c.ref2)} =
                   {v["id"].s : v \in Range(view["variants"].l)}
    IN  /\ c.op = "get_generation_with_variants" /\ c.ret = "model"
        /\ req["r2"].op = "create" /\ req["r2"].kind = "variant"
        /\ req["r2"].pc = "done"
        /\ DOMAIN c.pre = {c.ref} /\ DOMAIN req["r2"].pre = {c.ref}
        /\ DOMAIN store = {c.ref, req["r2"].ref}
        /\ clock = 3
        /\ ~same(c.pre) /\ ~same(req["r2"].pre) /\ ~same(store)

\* ------------------------------------------------------------------------
\* Two requests update one document.

\* One document of a kind; the updates set one field to either of two
\* values, or another field; the stamped writes of a behaviour cover the
\* create and one update of each request.
RaceScope ==
    [anc  |-> [k \in Kinds |-> {Chain(k)}],
     ids  |-> [k \in Kinds |-> {Ids(k)[1]}],
     ents |-> [k \in Kinds |-> {Built(k, EmptyMap, 0)}],
     upds |-> [k \in Kinds |->
                 {Put(EmptyMap, UpdatedField(k), Str("C")),
                  Put(EmptyMap, UpdatedField(k), Str("D")),
                  Put(EmptyMap, CHOOSE f \in OwnFields(k) \ {UpdatedField(k)} :
                                    FieldType(k, f) \in {"str", "opt_str"},
                      Str("E"))}],
     args |-> [k \in Kinds |-> {NoArgs}],
     max  |-> MaxClock + 1]

NextRace ==
    \/ \E kind \in UpdateKinds : OneKind(kind) /\ create("r1", kind, RaceScope)
    \/ read_back("r1")
    \/ \E r \in Procs, kind \in UpdateKinds :
          DocsOf(store, kind) # {} /\ update(r, kind, RaceScope)

SpecRace == Init /\ [][NextRace]_vars

\* C20: when the last two writes of a document are updates of two
\* requests, the document holds every field of the later update with the
\* later update's value, every other field of the earlier update with the
\* earlier update's value, and every remaining field but updated_at as it
\* was before the two: fields of disjoint updates are both kept, and on
\* the same field the update the store applied last wins.
C20_ConcurrentUpdatesMerge ==
    \A r, q \in Procs :
        LET t(st, p) == st[p]["updated_at"].t
            p == req[r].ref
        IN  (/\ r # q /\ Updated(r) /\ Updated(q)
             /\ req[q].ref = p /\ p \in DOMAIN store
             /\ t(req[r].pre, p) + 1 = clock - 1
             /\ t(req[q].pre, p) + 1 = clock
             /\ t(store, p) = clock) =>
                \A f \in DOMAIN req[r].pre[p] \cup DOMAIN req[r].updates
                             \cup DOMAIN req[q].updates :
                    f # "updated_at" =>
                        /\ f \in DOMAIN store[p]
                        /\ store[p][f] =
                              IF f \in DOMAIN req[q].updates THEN req[q].updates[f]
                              ELSE IF f \in DOMAIN req[r].updates THEN req[r].updates[f]
                              ELSE req[r].pre[p][f]

\* C20, its case: the two requests updated different fields of the same
\* document, one after the other, and the document holds both values.
C20_Witness ==
    /\ Updated("r1") /\ Updated("r2")
    /\ req["r1"].ref = req["r2"].ref
    /\ DOMAIN req["r1"].updates \cap DOMAIN req["r2"].updates = {}
    /\ req["r1"].pre[req["r1"].ref]["updated_at"].t = clock - 1
    /\ \A f \in DOMAIN req["r1"].updates : store[req["r1"].ref][f] = req["r1"].updates[f]
    /\ \A f \in DOMAIN req["r2"].updates : store[req["r2"].ref][f] = req["r2"].updates[f]

\* ------------------------------------------------------------------------
\* The store calls of the operations.

\* C21: an update is one store call, made at once and preceded by no read,
\* and on an id that has no document it returns without an error unless
\* the store call itself failed.
C21_UpdateWithoutCheck ==
    \A r \in Procs :
        (/\ req[r].op = "update" /\ req[r].pc = "done"
         /\ req[r].ref \notin DOMAIN req[r].pre) =>
            req[r].ret = "ok" \/ req[r].err = "storage"

\* C22: every operation is one store call: no request is ever between two
\* store calls of its operation, in a state other requests can see.
C22_SingleRoundTrip ==
    \A r \in Procs : req[r].pc \in {"idle", "done"}

\* C23: a store call that fails ends its operation with FirestoreError:
\* the step writes nothing, the operation is over and makes no further
\* store call; a create whose write failed has read nothing back, and a
\* compound create whose transaction failed has committed nothing and
\* fetched neither the asset nor the generation.
C23_NoRetry ==
    [][\A r \in Procs :
          req'[r].err \in {"storage", "transaction"} =>
              /\ req'[r].pc = "done" /\ req'[r].ret = "error"
              /\ req'[r] # req[r] => (store' = store /\ clock' = clock)
              /\ (req'[r].op = "create" /\ req'[r].ref = <<>>) => req'[r].out = <<>>
              /\ req'[r].err = "transaction" =>
                    /\ ~req'[r].committed
                    /\ req'[r].ref = <<>> /\ req'[r].out = <<>>]_vars

\* C23, its case: the write of a create has failed.
C23_Witness ==
    /\ req["r1"].op = "create" /\ req["r1"].pc = "done"
    /\ req["r1"].err = "storage" /\ req["r1"].ref = <<>>

\* ------------------------------------------------------------------------
\* The accessor of the REST requests (get_accessor).  Accessors are named
\* by the order they were built in; 0 is no accessor.

\* get_accessor, the lookup in the cache of _get_accessor_cached: a hit
\* gives the cached accessor, a miss goes on to build one.
get_accessor(r) ==
    /\ Free(r)
    /\ LET c == [Call("get_accessor", "", <<>>, "") EXCEPT !.pre = EmptyStore]
       IN  req' = [req EXCEPT ![r] =
               IF accessor.cached # 0
               THEN Return(c, "accessor", <<accessor.cached>>)
               ELSE [c EXCEPT !.pc = "construct"]]
    /\ UNCHANGED <<store, clock, accessor>>

\* _get_accessor_cached after a miss: FirestoreAccessor(...) raises, which
\* is answered with 500 and caches nothing, or returns an accessor, which
\* the request uses and which is cached unless the cache was filled in the
\* meantime.
_get_accessor_cached(r) ==
    /\ req[r].pc = "construct"
    /\ \/ /\ req' = [req EXCEPT ![r] =
                 Respond(req[r], HTTP_500_INTERNAL_SERVER_ERROR, "configuration", <<>>)]
          /\ UNCHANGED accessor
       \/ /\ accessor.built < MaxAccessors
          /\ LET h == accessor.built + 1
             IN  /\ accessor' = [cached |-> IF accessor.cached = 0 THEN h
                                            ELSE accessor.cached,
                                 built |-> h]
                 /\ req' = [req EXCEPT ![r] = Return(req[r], "accessor", <<h>>)]
    /\ UNCHANGED <<store, clock>>

\* A request resolves get_accessor and then runs its handler (here a GET).
NextAccessor ==
    \/ \E r \in Procs : get_accessor(r)
    \/ \E r \in Procs : _get_accessor_cached(r)
    \/ \E r \in Procs, kind \in Kinds :
          req[r].ret = "accessor" /\ rest_get(r, kind, RestScope)

SpecAccessor == Init /\ [][NextAccessor]_vars

\* C24: at most one accessor is ever built, and every request that got an
\* accessor got the cached one.
C24_AccessorBuiltOnce ==
    /\ accessor.built <= 1
    /\ \A r \in Procs : req[r].ret = "accessor" => req[r].out = <<accessor.cached>>

\* ------------------------------------------------------------------------
\* Assets and their first generations.

\* Assets as a POST handler builds them (no timestamps, the ancestor ids
\* set) and as a caller of the accessor does; an update that sets the
\* required name to None.
AssetScope ==
    [anc  |-> [k \in Kinds |-> {Chain(k)}],
     ids  |-> [k \in Kinds |-> IF k = "asset" THEN IdSet(k) ELSE {Ids(k)[1]}],
     ents |-> [k \in Kinds |->
                 IF k = "asset"
                 THEN {Built(k, [created_at |-> None, org_id |-> Str(Chain(k)[1]),
                                 project_id |-> Str(Chain(k)[2])], 0),
                       Built(k, Put(EmptyMap, "theme_id", Str("x")), 0)}
                 ELSE {Built(k, EmptyMap, 0)}],
     upds |-> [k \in Kinds |-> {Put(EmptyMap, "name", None)}],
     args |-> [k \in Kinds |-> {NoArgs}],
     max  |-> MaxClock + 1]

\* One request that creates, overwrites, spoils and lists.
NextAsset ==
    \/ \E kind \in {"asset", "generation"} : create("r1", kind, AssetScope)
    \/ read_back("r1")
    \/ create_asset_with_first_generation("r1", AssetScope)
    \/ compound_get_asset("r1")
    \/ compound_get_generation("r1")
    \/ list("r1", "asset", AssetScope)
    \/ update("r1", "asset", AssetScope)

SpecAsset == Init /\ [][NextAsset]_vars

\* A create of one request and a delete of the other.
NextCreateDelete ==
    \/ create("r1", "asset", AssetScope)
    \/ read_back("r1")
    \/ delete("r2", "asset", AssetScope)

SpecCreateDelete == Init /\ [][NextCreateDelete]_vars

\* C25: no stored document has a field org_id, project_id, asset_id or
\* generation_id whose value is the id its own path has at that place.
C25_AncestorIdsNotPersisted ==
    \A p \in DOMAIN store :
        LET ids == Metadata(DocKind(p), PathAncestors(p))
        IN  \A f \in DOMAIN ids : f \in DOMAIN store[p] => store[p][f] # ids[f]

\* ------------------------------------------------------------------------
\* A PATCH of one request and a DELETE of the other, on the kinds whose
\* handlers find every accessor method they call.

NextPatchDelete ==
    \/ \E kind \in DeleteKinds : OneKind(kind) /\ create("r1", kind, RestScope)
    \/ read_back("r1")
    \/ \E kind \in DeleteKinds : rest_patch("r1", kind, RestScope)
    \/ patch_update("r1", RestScope)
    \/ patch_get("r1")
    \/ \E kind \in DeleteKinds : rest_delete("r2", kind, RestScope)
    \/ delete_call("r2")

SpecPatchDelete == Init /\ [][NextPatchDelete]_vars

\* C26: a PATCH none of whose store calls failed is answered with 200, 400
\* or 404, whatever DELETE requests ran beside it: its update finds the
\* document its pre-check found, and so does its re-read.
C26_PatchReReadFinds ==
    \A r \in Procs :
        (req[r].op = "PATCH" /\ req[r].pc = "done" /\ req[r].err # "storage") =>
            req[r].status \in {HTTP_200_OK, HTTP_400_BAD_REQUEST, HTTP_404_NOT_FOUND}

\* C27: a create given the id of an existing document replaces it: the
\* document holds the fields of the new entity and the two timestamps and
\* nothing of the old one, its created_at is the new write's, no document
\* is added and every other document, those below it included, is as it
\* was.  A compound create given the ids of existing documents does the
\* same to both.
C27_CreateOverwrites ==
    [][\A r \in Procs :
          LET c == req'[r]
              gone(d, data) ==
                  /\ \A f \in DOMAIN store'[d] :
                        f \in DOMAIN data \cup {"created_at", "updated_at"}
                  /\ \A f \in DOMAIN data \ {"created_at", "updated_at"} :
                        f \in DOMAIN store'[d] /\ store'[d][f] = data[f]
                  /\ "created_at" \in DOMAIN store'[d]
                  /\ store'[d]["created_at"] \in
                        {Ts("server", clock')} \cup
                        {data[f] : f \in DOMAIN data \cap {"created_at"}}
          IN  /\ (/\ c.op = "create" /\ c.pc = "read_back" /\ req[r].pc # "read_back"
                  /\ c.id # "" /\ c.ref \in DOMAIN store) =>
                     /\ DocId(c.ref) = c.id
                     /\ DOMAIN store' = DOMAIN store
                     /\ \A p \in DOMAIN store \ {c.ref} : store'[p] = store[p]
                     /\ gone(c.ref, _model_to_dict(c.entity, FALSE))
              /\ (c.pc = "get_asset" /\ req[r].pc # "get_asset") =>
                     /\ DOMAIN store' = DOMAIN store \cup {c.ref, c.ref2}
                     /\ \A p \in DOMAIN store \ {c.ref, c.ref2} : store'[p] = store[p]
                     /\ (c.id # "" /\ c.ref \in DOMAIN store) =>
                           gone(c.ref, _model_to_dict(c.entity, FALSE))
                     /\ (c.id2 # "" /\ c.ref2 \in DOMAIN store) =>
                           gone(c.ref2, _model_to_dict(c.entity2, FALSE))]_vars

\* C28: the read-back of a create is a step of its own, after the write.
\* When it fails, or finds no document because a delete came between, the
\* create raises and the step changes nothing in the store: the written
\* document stays, or, after the delete, stays deleted.
C28_CreateNotRolledBack ==
    [][\A r \in Procs :
          (req[r].pc = "read_back" /\ req'[r] # req[r]) =>
              /\ req'[r].pc = "done"
              /\ store' = store
              /\ req[r].ref \notin DOMAIN store =>
                    (req'[r].ret = "error" /\ req'[r].err \in {"read_back", "storage"})
              /\ req'[r].err = "read_back" => req[r].ref \notin DOMAIN store]_vars

\* C28, its case: a create has raised because its read-back failed, and
\* the document it wrote is in the store, which is not as it was when the
\* create was called.
C28_Witness ==
    /\ req["r1"].op = "create" /\ req["r1"].pc = "done" /\ req["r1"].ret = "error"
    /\ req["r1"].ref \in DOMAIN store
    /\ req["r1"].ref \notin DOMAIN req["r1"].pre

\* C29: the two documents a compound create commits are the documents
\* create_asset and create_generation write for the same entities and ids,
\* at the server times the two writes would get.
C29_CompoundAsTwoCreates ==
    [][\A r \in Procs :
          (req'[r].pc = "get_asset" /\ req[r].pc # "get_asset") =>
              LET c == req'[r]
                  written(d, e) ==
                      \E t \in {clock + 1, clock + 2} :
                          store'[d] = _create_doc(store, d, _model_to_dict(e, FALSE), t)[d]
              IN  written(c.ref, c.entity) /\ written(c.ref2, c.entity2)]_vars

\* C30: a list whose store call did not fail raises the conversion error
\* and returns nothing when a document of the collection cannot be built
\* into the entity; otherwise it returns one entity per document of the
\* collection, each with the id of its document and equal to what get
\* reads there.
C30_ListAllOrNothing ==
    \A r \in Procs :
        (req[r].op = "list" /\ req[r].pc = "done" /\ req[r].err # "storage") =>
            LET c == req[r]
                docs == DocsIn(store, c.ref)
                bad == {p \in docs :
                           ~Constructible(c.kind, Put(store[p], "id", Str(DocId(p))))}
            IN  IF bad # {}
                THEN c.ret = "error" /\ c.err = "parse" /\ c.out = <<>>
                ELSE /\ c.ret = "list"
                     /\ Len(c.out) = Cardinality(docs)
                     /\ \A p \in docs : \E i \in DOMAIN c.out :
                           /\ c.out[i]["id"] = Str(DocId(p))
                           /\ \E now \in ClientTimes :
                                 <<c.out[i]>> = GetResult(store, c.kind, c.anc, p, now)

\* C30, its case: the collection holds a document that converts and one
\* that does not, and the list has raised.
C30_Witness ==
    LET c == req["r1"]
        docs == DocsIn(store, c.ref)
    IN  /\ c.op = "list" /\ c.pc = "done" /\ c.err = "parse"
        /\ \E p, q \in docs :
              /\ store[p]["name"] = None
              /\ Constructible("asset", Put(store[q], "id", Str(DocId(q))))

===========================================================================
